---------------------------- MODULE Spec2Model ----------------------------
(***************************************************************************)
(* LINE webhook signature middleware for Hono (lineBotMiddleware,          *)
(* importKeyFromChannelSecret, validateSignature).                         *)
(*                                                                         *)
(* Strings are sequences of code points, byte buffers are sequences of     *)
(* numbers in 0..255.  A JavaScript value that may or may not be a string  *)
(* is a record [type, chars]; a promise is a record [state, ...].          *)
(***************************************************************************)
EXTENDS Integers, Sequences, FiniteSets, TLC

(***************************************************************************)
(* Bounds of the model.                                                    *)
(***************************************************************************)
\* Requests in flight over the life of the model.
MaxRequests == 2
\* Calls of lineBotMiddleware (successful or not).
MaxConstructions == 2
\* Length in bytes of the digest of the stand-in for HMAC-SHA256 (32 in
\* the platform's primitive).
DigestLen == 2

(***************************************************************************)
(* State.                                                                  *)
(***************************************************************************)
VARIABLES
    interceptors,   \* closures returned by lineBotMiddleware: [secret, cryptoKey]
    derivations,    \* calls of importKeyFromChannelSecret made by lineBotMiddleware
    lastCall,       \* the last call of lineBotMiddleware: [arg, threw, error]
    calls,          \* number of calls of lineBotMiddleware
    req,            \* per request: the handler's locals, position and effects
    vkey,           \* promise of a direct call of importKeyFromChannelSecret
    vcall           \* last direct call of validateSignature: [body, signature, result]

vars == << interceptors, derivations, lastCall, calls, req, vkey, vcall >>

(***************************************************************************)
(* Characters and Base64 (atob / btoa, used by hono's decodeBase64).       *)
(***************************************************************************)
Pad == 61                       \* "="
AsciiWhitespace == {9, 10, 12, 13, 32}

\* Code point of the Base64 character of sextet v (RFC 4648 alphabet).
B64Char(v) ==
    IF v < 26 THEN 65 + v
    ELSE IF v < 52 THEN 97 + (v - 26)
    ELSE IF v < 62 THEN 48 + (v - 52)
    ELSE IF v = 62 THEN 43
    ELSE 47

IsB64Char(c) ==
    \/ c \in 65..90
    \/ c \in 97..122
    \/ c \in 48..57
    \/ c = 43
    \/ c = 47

\* Sextet of a Base64 character.
B64Value(c) ==
    IF c \in 65..90 THEN c - 65
    ELSE IF c \in 97..122 THEN c - 97 + 26
    ELSE IF c \in 48..57 THEN c - 48 + 52
    ELSE IF c = 43 THEN 62
    ELSE 63

RECURSIVE EncodeFrom(_, _)
\* btoa: three bytes become four characters; a tail of one or two bytes is
\* padded with "=".
EncodeFrom(bytes, i) ==
    LET n == Len(bytes) - i + 1 IN
    IF n <= 0 THEN << >>
    ELSE IF n = 1 THEN
        << B64Char(bytes[i] \div 4), B64Char((bytes[i] % 4) * 16), Pad, Pad >>
    ELSE IF n = 2 THEN
        << B64Char(bytes[i] \div 4),
           B64Char((bytes[i] % 4) * 16 + (bytes[i + 1] \div 16)),
           B64Char((bytes[i + 1] % 16) * 4),
           Pad >>
    ELSE
        << B64Char(bytes[i] \div 4),
           B64Char((bytes[i] % 4) * 16 + (bytes[i + 1] \div 16)),
           B64Char((bytes[i + 1] % 16) * 4 + (bytes[i + 2] \div 64)),
           B64Char(bytes[i + 2] % 64) >> \o EncodeFrom(bytes, i + 3)

\* Standard Base64 with padding of a byte buffer.
EncodeBase64(bytes) == EncodeFrom(bytes, 1)

\* The string without its ASCII whitespace.
StripWhitespace(str) == SelectSeq(str, LAMBDA c : c \notin AsciiWhitespace)

\* A string whose length is a multiple of four loses one or two trailing "=".
StripPadding(str) ==
    LET n == Len(str) IN
    IF n % 4 = 0 /\ n > 0 /\ str[n] = Pad
    THEN IF str[n - 1] = Pad THEN SubSeq(str, 1, n - 2) ELSE SubSeq(str, 1, n - 1)
    ELSE str

RECURSIVE DecodeFrom(_, _)
\* Four characters become three bytes; a tail of two or three characters
\* becomes one or two bytes and its unused low bits are dropped.
DecodeFrom(str, i) ==
    LET n == Len(str) - i + 1
        v(k) == B64Value(str[i + k])
    IN
    IF n <= 0 THEN << >>
    ELSE IF n = 2 THEN << v(0) * 4 + (v(1) \div 16) >>
    ELSE IF n = 3 THEN
        << v(0) * 4 + (v(1) \div 16), (v(1) % 16) * 16 + (v(2) \div 4) >>
    ELSE
        << v(0) * 4 + (v(1) \div 16),
           (v(1) % 16) * 16 + (v(2) \div 4),
           (v(2) % 4) * 64 + v(3) >> \o DecodeFrom(str, i + 4)

\* atob: the forgiving Base64 decode.  It fails (InvalidCharacterError) on a
\* length of 1 modulo 4 and on any character outside the alphabet.
Atob(str) ==
    LET data == StripPadding(StripWhitespace(str)) IN
    IF Len(data) % 4 = 1 \/ \E k \in 1..Len(data) : ~IsB64Char(data[k])
    THEN [ok |-> FALSE, bytes |-> << >>]
    ELSE [ok |-> TRUE, bytes |-> DecodeFrom(data, 1)]

\* decodeBase64 of hono/utils/encode: the bytes of atob(str); it throws what
\* atob throws.
decodeBase64(str) == Atob(str)

(***************************************************************************)
(* Signature verifier: importKeyFromChannelSecret and validateSignature.   *)
(***************************************************************************)
\* TextEncoder.encode: the UTF-8 bytes of a string of code points below
\* U+10000.
RECURSIVE Utf8From(_, _)
Utf8From(chars, i) ==
    IF i > Len(chars) THEN << >>
    ELSE LET c == chars[i] IN
         (IF c < 128 THEN << c >>
          ELSE IF c < 2048 THEN << 192 + (c \div 64), 128 + (c % 64) >>
          ELSE << 224 + (c \div 4096), 128 + ((c \div 64) % 64), 128 + (c % 64) >>)
         \o Utf8From(chars, i + 1)

TextEncode(chars) == Utf8From(chars, 1)

\* The stand-in for HMAC-SHA256 of crypto.subtle: a keyed digest of
\* DigestLen bytes, free of collisions on the inputs of the model
\* (HmacCollisionFree).
Modulus == 256 ^ DigestLen

RECURSIVE Absorb(_, _, _)
Absorb(h, bytes, i) ==
    IF i > Len(bytes) THEN h
    ELSE Absorb((h * 131 + bytes[i] + 1) % Modulus, bytes, i + 1)

RECURSIVE ToBytes(_, _)
\* The n low bytes of h, most significant first.
ToBytes(h, n) ==
    IF n = 0 THEN << >> ELSE ToBytes(h \div 256, n - 1) \o << h % 256 >>

Hmac(keyBytes, msg) ==
    ToBytes(Absorb((Absorb(7, keyBytes, 1) * 31 + 11) % Modulus, msg, 1), DigestLen)

NoKey == [bytes |-> << >>, usages |-> {}]
Pending == [state |-> "pending", key |-> NoKey, reason |-> ""]
Fulfilled(k) == [state |-> "fulfilled", key |-> k, reason |-> ""]
Rejected(e) == [state |-> "rejected", key |-> NoKey, reason |-> e]

\* crypto.subtle.importKey("raw", keyBytes, HMAC/SHA-256, false, ["verify"]):
\* a key of zero length is refused with a DataError.
SubtleImportKey(keyBytes) ==
    IF Len(keyBytes) = 0
    THEN Rejected("DataError")
    ELSE Fulfilled([bytes |-> keyBytes, usages |-> {"verify"}])

\* Faulty variant: the secret taken one byte per character (Latin-1) instead of
\* UTF-8.
importKeyLatin1(chars) == SubtleImportKey([i \in 1..Len(chars) |-> chars[i] % 256])

\* What the promise of importKeyFromChannelSecret(channelSecret) settles to.
importKeyFromChannelSecret(chars) == SubtleImportKey(TextEncode(chars))

\* crypto.subtle.verify("HMAC", key, signatureBytes, body): the digest of
\* body under key is compared with signatureBytes, lengths included.
SubtleVerify(key, signatureBytes, body) ==
    IF "verify" \notin key.usages
    THEN [settled |-> "rejected", value |-> FALSE, reason |-> "InvalidAccessError"]
    ELSE [settled |-> "resolved", value |-> Hmac(key.bytes, body) = signatureBytes,
          reason |-> ""]

\* Faulty variant: a replay guard: a signature that some request was already
\* forwarded with is refused.
validateSignatureOnce(body, key, signature) ==
    LET signatureBytes == decodeBase64(signature) IN
    IF ~signatureBytes.ok
    THEN [settled |-> "rejected", value |-> FALSE, reason |-> "InvalidCharacterError"]
    ELSE IF \E q \in DOMAIN req : req[q].nextCalls > 0 /\ req[q].header.value = signature
    THEN [settled |-> "resolved", value |-> FALSE, reason |-> ""]
    ELSE SubtleVerify(key, signatureBytes.bytes, body)

\* What the promise of validateSignature(body, key, signature) settles to.
validateSignature(body, key, signature) ==
    LET signatureBytes == decodeBase64(signature) IN
    IF ~signatureBytes.ok
    THEN [settled |-> "rejected", value |-> FALSE, reason |-> "InvalidCharacterError"]
    ELSE SubtleVerify(key, signatureBytes.bytes, body)

(***************************************************************************)
(* Inputs of the model.                                                    *)
(***************************************************************************)
\* Channel secrets that are strings: "ts", "é" (two bytes in UTF-8) and "".
SecretA == << 116, 115 >>
SecretB == << 233 >>
StringSecrets == { SecretA, SecretB, << >> }

\* Values a caller may pass as channelSecret.
JsString(chars) == [kind |-> "string", chars |-> chars]
ChannelSecrets ==
    { JsString(s) : s \in StringSecrets }
        \cup { [kind |-> k, chars |-> << >>] : k \in {"null", "undefined", "number"} }

\* typeof of a value.
TypeOf(v) == IF v.kind = "null" THEN "object" ELSE v.kind

\* Request bodies: "{}" and "[]".
BodyA == << 123, 125 >>
BodyB == << 91, 93 >>
Bodies == { BodyA, BodyB }

\* The sender's reference computation: Base64 of the digest of the body
\* under the UTF-8 bytes of the secret.
Sign(secretChars, body) == EncodeBase64(Hmac(TextEncode(secretChars), body))

\* A signature with its first character replaced by the next one of the
\* alphabet.
AlterOneChar(str) ==
    [str EXCEPT ![1] = B64Char((B64Value(str[1]) + 1) % 64)]

\* A signature with its first character replaced by "-", which is not in
\* the standard alphabet.
Malformed(str) == [str EXCEPT ![1] = 45]

NoHeader == [present |-> FALSE, value |-> << >>]
HeaderOf(str) == [present |-> TRUE, value |-> str]

\* Values of the x-line-signature header of a request.
Headers ==
    { NoHeader,
      HeaderOf(<< >>),
      HeaderOf(Sign(SecretA, BodyA)),
      HeaderOf(Sign(SecretB, BodyA)),
      HeaderOf(Sign(<< >>, BodyA)),
      HeaderOf(AlterOneChar(Sign(SecretA, BodyA))),
      HeaderOf(Malformed(Sign(SecretA, BodyA))) }

\* What the downstream continuation may do: set a response status, or fail.
NoResult == [settled |-> "none", status |-> 0, reason |-> ""]
NextResults ==
    { [settled |-> "resolved", status |-> 200, reason |-> ""],
      [settled |-> "resolved", status |-> 204, reason |-> ""],
      [settled |-> "rejected", status |-> 0, reason |-> "downstream failure"] }

(***************************************************************************)
(* Values of the state.                                                    *)
(***************************************************************************)
Requests == 1..MaxRequests

NoOutcome == [kind |-> "none", status |-> 0, reason |-> ""]
HttpException(status, message) == [kind |-> "Rejected", status |-> status, reason |-> message]
Failure(error) == [kind |-> "Error", status |-> 0, reason |-> error]
\* Faulty variant: next() called without await, so that its failure is lost.
ForwardedUnawaited(result) == [kind |-> "Forwarded", status |-> result.status, reason |-> ""]

Forwarded(result) == [kind |-> "Forwarded", status |-> result.status, reason |-> result.reason]

IdleRequest ==
    [pc |-> "idle", mw |-> 0, header |-> NoHeader, body |-> << >>,
     key |-> NoKey, next |-> NoResult, outcome |-> NoOutcome,
     bodyReads |-> 0, keyAwaits |-> 0, verifyCalls |-> 0, nextCalls |-> 0]

NoCall == [arg |-> [kind |-> "none", chars |-> << >>], threw |-> FALSE, error |-> ""]
NoDirectCall == [called |-> FALSE, secret |-> << >>, body |-> << >>, signature |-> << >>,
                 result |-> [settled |-> "none", value |-> FALSE, reason |-> ""]]

Init ==
    /\ interceptors = << >>
    /\ derivations = 0
    /\ lastCall = NoCall
    /\ calls = 0
    /\ req = [r \in Requests |-> IdleRequest]
    /\ vkey = [secret |-> << >>, promise |-> Pending, started |-> FALSE]
    /\ vcall = NoDirectCall

(***************************************************************************)
(* lineBotMiddleware(channelSecret).                                       *)
(***************************************************************************)
\* Faulty variant: the guard as channelSecret == null, which lets a number through.
NotAStringNullCheck(v) == v.kind \in {"null", "undefined"}

\* The guard of the constructor: typeof channelSecret !== "string".
NotAString(v) == TypeOf(v) # "string"

\* Faulty variant: the key derivation left to the first request instead of started
\* in the call.
ConstructLazy(v) ==
    /\ calls < MaxConstructions
    /\ calls' = calls + 1
    /\ IF NotAString(v)
       THEN /\ lastCall' = [arg |-> v, threw |-> TRUE, error |-> "no channel secret"]
            /\ UNCHANGED << interceptors, derivations >>
       ELSE /\ lastCall' = [arg |-> v, threw |-> FALSE, error |-> ""]
            /\ derivations' = derivations
            /\ interceptors' = Append(interceptors, [secret |-> v.chars, cryptoKey |-> Pending])
    /\ UNCHANGED << req, vkey, vcall >>

\* One call of lineBotMiddleware: it throws, or it starts the key derivation
\* and returns the handler closed over the pending key.
Construct(v) ==
    /\ calls < MaxConstructions
    /\ calls' = calls + 1
    /\ IF NotAString(v)
       THEN /\ lastCall' = [arg |-> v, threw |-> TRUE, error |-> "no channel secret"]
            /\ UNCHANGED << interceptors, derivations >>
       ELSE /\ lastCall' = [arg |-> v, threw |-> FALSE, error |-> ""]
            /\ derivations' = derivations + 1
            /\ interceptors' = Append(interceptors, [secret |-> v.chars, cryptoKey |-> Pending])
    /\ UNCHANGED << req, vkey, vcall >>

\* The promise of importKeyFromChannelSecret held by interceptor i settles.
KeySettle(i) ==
    /\ i \in 1..Len(interceptors)
    /\ interceptors[i].cryptoKey.state = "pending"
    /\ interceptors' = [interceptors EXCEPT
                            ![i].cryptoKey = importKeyFromChannelSecret(interceptors[i].secret)]
    /\ UNCHANGED << derivations, lastCall, calls, req, vkey, vcall >>

(***************************************************************************)
(* The handler async (c, next) => { ... } of one interceptor.              *)
(***************************************************************************)
\* Faulty variant: the guard as signature === "", which a request without the
\* header passes.
NoSignatureNever(h) == h.present /\ Len(h.value) = 0

\* !signature, for the value of c.req.header("x-line-signature"): undefined
\* when the header is absent, the header's value otherwise.
NoSignature(h) == ~h.present \/ Len(h.value) = 0

\* A request reaches interceptor i: the handler runs to its first await.
Arrive(r, i, h, b) ==
    /\ req[r].pc = "idle"
    /\ \A q \in Requests : q < r => req[q].pc # "idle"
    /\ i \in 1..Len(interceptors)
    /\ IF NoSignature(h)
       THEN req' = [req EXCEPT ![r] = [@ EXCEPT !.mw = i, !.header = h, !.body = b,
                        !.pc = "done",
                        !.outcome = HttpException(401, "no signature")]]
       ELSE req' = [req EXCEPT ![r] = [@ EXCEPT !.mw = i, !.header = h, !.body = b,
                        !.pc = "AwaitingBody",
                        !.bodyReads = @ + 1]]
    /\ UNCHANGED << interceptors, derivations, lastCall, calls, vkey, vcall >>

\* c.req.arrayBuffer() settles; on success the handler goes on to
\* `await cryptoKey`.
BodyRead(r, ok) ==
    /\ req[r].pc = "AwaitingBody"
    /\ IF ok
       THEN req' = [req EXCEPT ![r] = [@ EXCEPT !.pc = "AwaitingKey", !.keyAwaits = @ + 1]]
       ELSE req' = [req EXCEPT ![r] = [@ EXCEPT !.pc = "done",
                        !.outcome = Failure("body read failed")]]
    /\ UNCHANGED << interceptors, derivations, lastCall, calls, vkey, vcall >>

\* Faulty variant: a rejected key promise caught in the handler and reported
\* as an authentication failure.
KeyResumeCatching(r) ==
    /\ req[r].pc = "AwaitingKey"
    /\ LET p == interceptors[req[r].mw].cryptoKey IN
       /\ p.state # "pending"
       /\ IF p.state = "rejected"
          THEN req' = [req EXCEPT ![r] = [@ EXCEPT !.pc = "done",
                           !.outcome = HttpException(401, "signature validation failed")]]
          ELSE req' = [req EXCEPT ![r] = [@ EXCEPT !.pc = "Verifying",
                           !.key = p.key, !.verifyCalls = @ + 1]]
    /\ UNCHANGED << interceptors, derivations, lastCall, calls, vkey, vcall >>

\* Faulty variant: cryptoKey used without await: a request that finds the promise
\* pending hands the promise itself to validateSignature, which fails.
KeyResumeNoAwait(r) ==
    /\ req[r].pc = "AwaitingKey"
    /\ LET p == interceptors[req[r].mw].cryptoKey IN
       IF p.state # "fulfilled"
       THEN req' = [req EXCEPT ![r] = [@ EXCEPT !.pc = "done", !.verifyCalls = @ + 1,
                        !.outcome = Failure("TypeError")]]
       ELSE req' = [req EXCEPT ![r] = [@ EXCEPT !.pc = "Verifying",
                        !.key = p.key, !.verifyCalls = @ + 1]]
    /\ UNCHANGED << interceptors, derivations, lastCall, calls, vkey, vcall >>

\* `await cryptoKey` resumes once the key promise is settled: a rejected
\* promise throws in the handler, a fulfilled one gives the key that
\* validateSignature is called with.
KeyResume(r) ==
    /\ req[r].pc = "AwaitingKey"
    /\ LET p == interceptors[req[r].mw].cryptoKey IN
       /\ p.state # "pending"
       /\ IF p.state = "rejected"
          THEN req' = [req EXCEPT ![r] = [@ EXCEPT !.pc = "done",
                           !.outcome = Failure(p.reason)]]
          ELSE req' = [req EXCEPT ![r] = [@ EXCEPT !.pc = "Verifying",
                           !.key = p.key, !.verifyCalls = @ + 1]]
    /\ UNCHANGED << interceptors, derivations, lastCall, calls, vkey, vcall >>

\* Faulty variant: the handler without its `if (!isValid) throw`: it calls next
\* whatever the verdict.
VerifySettleUnchecked(r) ==
    /\ req[r].pc = "Verifying"
    /\ LET isValid == validateSignature(req[r].body, req[r].key, req[r].header.value) IN
       IF isValid.settled = "rejected"
       THEN req' = [req EXCEPT ![r] = [@ EXCEPT !.pc = "done",
                        !.outcome = Failure(isValid.reason)]]
       ELSE req' = [req EXCEPT ![r] = [@ EXCEPT !.pc = "InNext", !.nextCalls = @ + 1]]
    /\ UNCHANGED << interceptors, derivations, lastCall, calls, vkey, vcall >>

\* The promise of validateSignature settles and the handler resumes: it
\* throws what the promise was rejected with, throws the 401, or calls next.
VerifySettle(r) ==
    /\ req[r].pc = "Verifying"
    /\ LET isValid == validateSignature(req[r].body, req[r].key, req[r].header.value) IN
       IF isValid.settled = "rejected"
       THEN req' = [req EXCEPT ![r] = [@ EXCEPT !.pc = "done",
                        !.outcome = Failure(isValid.reason)]]
       ELSE IF ~isValid.value
       THEN req' = [req EXCEPT ![r] = [@ EXCEPT !.pc = "done",
                        !.outcome = HttpException(401, "signature validation failed")]]
       ELSE req' = [req EXCEPT ![r] = [@ EXCEPT !.pc = "InNext", !.nextCalls = @ + 1]]
    /\ UNCHANGED << interceptors, derivations, lastCall, calls, vkey, vcall >>

\* The downstream continuation settles.
NextSettle(r, result) ==
    /\ req[r].pc = "InNext"
    /\ req' = [req EXCEPT ![r] = [@ EXCEPT !.pc = "AfterNext", !.next = result]]
    /\ UNCHANGED << interceptors, derivations, lastCall, calls, vkey, vcall >>

\* `await next()` resumes: the handler returns, or throws what next threw.
Finish(r) ==
    /\ req[r].pc = "AfterNext"
    /\ req' = [req EXCEPT ![r] = [@ EXCEPT !.pc = "done", !.outcome = Forwarded(req[r].next)]]
    /\ UNCHANGED << interceptors, derivations, lastCall, calls, vkey, vcall >>

Next ==
    \/ \E v \in ChannelSecrets : Construct(v)
    \/ \E i \in 1..MaxConstructions : KeySettle(i)
    \/ \E r \in Requests, i \in 1..MaxConstructions, h \in Headers, b \in Bodies :
            Arrive(r, i, h, b)
    \/ \E r \in Requests, ok \in BOOLEAN : BodyRead(r, ok)
    \/ \E r \in Requests : KeyResume(r)
    \/ \E r \in Requests : VerifySettle(r)
    \/ \E r \in Requests, result \in NextResults : NextSettle(r, result)
    \/ \E r \in Requests : Finish(r)

Spec == Init /\ [][Next]_vars

(***************************************************************************)
(* Direct use of the verifier, as a caller of the two exported functions   *)
(* does it: await importKeyFromChannelSecret(secret), then                 *)
(* await validateSignature(body, key, signature).                          *)
(***************************************************************************)
\* Payloads of direct calls: the request bodies, the empty payload and one
\* that differs from BodyA in its last byte only.
Payloads == Bodies \cup { << >>, << 123, 124 >> }

\* bytes with bit k (0 the lowest) of byte i flipped.
FlipBit(bytes, i, k) ==
    [bytes EXCEPT ![i] = IF (@ \div (2 ^ k)) % 2 = 1 THEN @ - 2 ^ k ELSE @ + 2 ^ k]

\* Digests of the payloads under the secrets that give a key.
Digests == { Hmac(TextEncode(s), b) : s \in StringSecrets \ { << >> }, b \in Payloads }

\* Candidate signature bytes: the digests, every single-bit mutation of
\* them, a digest cut short or grown by a byte, and no bytes at all.
SignatureBytes ==
    Digests
        \cup { FlipBit(d, i, k) : d \in Digests, i \in 1..DigestLen, k \in 0..7 }
        \cup { SubSeq(d, 1, DigestLen - 1) : d \in Digests }
        \cup { d \o << 0 >> : d \in Digests }
        \cup { << >> }

\* Strings that are not well-formed standard Base64: a character outside
\* the alphabet, a length of 1 modulo 4, padding in the middle, too much
\* padding.
MalformedSignatures ==
    { Malformed(Sign(SecretA, BodyA)),
      << 65 >>,
      << 65, 61, 66, 67 >>,
      << 65, 61, 61, 61 >>,
      << 65, 66, 67, 68, 69 >>,
      << 95, 45, 65, 65 >> }

\* Signatures of direct calls.
Signatures == { EncodeBase64(x) : x \in SignatureBytes } \cup MalformedSignatures

\* await importKeyFromChannelSecret(secret) in the caller.
DirectImport(s) ==
    /\ ~vkey.started
    /\ vkey' = [secret |-> s, promise |-> importKeyFromChannelSecret(s), started |-> TRUE]
    /\ UNCHANGED << interceptors, derivations, lastCall, calls, req, vcall >>

\* await validateSignature(body, key, signature) with the imported key; one
\* call per run, as in each test case.
DirectValidate(b, g) ==
    /\ vkey.started
    /\ ~vcall.called
    /\ vkey.promise.state = "fulfilled"
    /\ vcall' = [called |-> TRUE, secret |-> vkey.secret, body |-> b, signature |-> g,
                 result |-> validateSignature(b, vkey.promise.key, g)]
    /\ UNCHANGED << interceptors, derivations, lastCall, calls, req, vkey >>

VerifierNext ==
    \/ \E s \in StringSecrets : DirectImport(s)
    \/ \E b \in Payloads, g \in Signatures : DirectValidate(b, g)

VerifierSpec == Init /\ [][VerifierNext]_vars

\* The digest is free of collisions on the inputs of the model.
HmacCollisionFree ==
    \A s1, s2 \in StringSecrets, b1, b2 \in Payloads :
        Hmac(TextEncode(s1), b1) = Hmac(TextEncode(s2), b2) => s1 = s2 /\ b1 = b2

(***************************************************************************)
(* Properties.                                                             *)
(***************************************************************************)
\* The request has been handled to its end.
Done(r) == req[r].pc = "done"

\* The handler of request r has called validateSignature and the call has
\* settled; VerdictOf is what it settled to.
Verified(r) == req[r].verifyCalls > 0 /\ req[r].pc # "Verifying"
VerdictOf(r) == validateSignature(req[r].body, req[r].key, req[r].header.value)

C2_MissingHeaderRejectedFirst ==
    \A r \in Requests :
        (req[r].pc # "idle" /\ ~req[r].header.present)
        => /\ Done(r)
           /\ req[r].outcome = HttpException(401, "no signature")
           /\ req[r].bodyReads = 0
           /\ req[r].keyAwaits = 0
           /\ req[r].verifyCalls = 0
           /\ req[r].nextCalls = 0

\* A request without the header has been handled while the key of its
\* interceptor was still pending.
C2_Witness ==
    \E r \in Requests :
        /\ req[r].pc = "done"
        /\ ~req[r].header.present
        /\ interceptors[req[r].mw].cryptoKey.state = "pending"

\* The header of request r is the sender's signature of its body under
\* the channel secret of its interceptor.
ValidlySigned(r) ==
    /\ req[r].pc # "idle"
    /\ req[r].header = HeaderOf(Sign(interceptors[req[r].mw].secret, req[r].body))

\* C3 as stated: every validly signed request (whose body bytes the handler
\* has read) is forwarded: next is invoked exactly once and the request
\* ends with the outcome of next.
C3_Original ==
    \A r \in Requests :
        (ValidlySigned(r) /\ Done(r) /\ req[r].keyAwaits = 1)
        => /\ req[r].nextCalls = 1
           /\ req[r].outcome = Forwarded(req[r].next)

\* C3 amended: a validly signed request whose body read succeeds and whose
\* interceptor's key derivation succeeds is forwarded: next is invoked
\* exactly once, only after verification returned true, nothing is done
\* after next completes, and the request ends with exactly the outcome of
\* next (its status, or its failure).
C3_ValidSignatureForwarded ==
    \A r \in Requests :
        ValidlySigned(r)
        => /\ req[r].nextCalls <= 1
           /\ req[r].nextCalls = 1
                => Verified(r) /\ VerdictOf(r).settled = "resolved" /\ VerdictOf(r).value
           /\ (req[r].keyAwaits = 1 /\ interceptors[req[r].mw].cryptoKey.state = "fulfilled")
                => /\ req[r].pc \in {"AwaitingKey", "Verifying", "InNext", "AfterNext", "done"}
                   /\ Verified(r) => req[r].nextCalls = 1
                   /\ req[r].pc \in {"AfterNext", "done"} => req[r].next \in NextResults
                   /\ Done(r)
                        => /\ req[r].outcome.kind = "Forwarded"
                           /\ req[r].outcome.status = req[r].next.status
                           /\ req[r].outcome.reason = req[r].next.reason
                           /\ req[r].bodyReads = 1
                           /\ req[r].verifyCalls = 1

\* A validly signed request has been forwarded and has ended with the
\* failure of next.
C3_Witness ==
    \E r \in Requests :
        /\ ValidlySigned(r)
        /\ Done(r)
        /\ req[r].nextCalls = 1
        /\ req[r].next.settled = "rejected"
        /\ req[r].outcome.reason = "downstream failure"

\* C4: a call of lineBotMiddleware with a channelSecret that is not a
\* string throws "no channel secret" within the call: it returns no
\* interceptor, starts no key derivation and touches no request; requests
\* are only ever handled by interceptors that were returned.
C4_NonStringSecretThrows ==
    /\ [][(calls' = calls + 1 /\ lastCall'.arg.kind # "string")
            => /\ lastCall'.threw
               /\ lastCall'.error = "no channel secret"
               /\ interceptors' = interceptors
               /\ derivations' = derivations
               /\ req' = req]_vars
    /\ [](/\ Len(interceptors) <= calls
          /\ \A r \in Requests : req[r].pc # "idle" => req[r].mw \in 1..Len(interceptors))

\* A call with a number has thrown after an earlier call returned an
\* interceptor, which is still the only one.
C4_Witness ==
    /\ lastCall.threw
    /\ lastCall.arg.kind = "number"
    /\ calls = 2
    /\ Len(interceptors) = 1
    /\ derivations = 1

\* Well-formed standard Base64 (RFC 4648 alphabet, with padding): a length
\* that is a multiple of four, characters of the alphabet, and at most two
\* "=" at the very end.
WellFormedBase64(str) ==
    LET n == Len(str) IN
    /\ n % 4 = 0
    /\ \A k \in 1..n :
        \/ IsB64Char(str[k])
        \/ str[k] = Pad /\ k >= n - 1 /\ (k = n - 1 => str[n] = Pad)

\* C5 as stated: for every signature string that is not well-formed
\* standard Base64, validateSignature resolves to false (it does not
\* reject).
C5_MalformedSignatureGivesFalse ==
    (vcall.called /\ ~WellFormedBase64(vcall.signature))
    => vcall.result.settled = "resolved" /\ ~vcall.result.value

\* C6 as stated: whatever the value of the header, a request whose body
\* read and key derivation succeed ends Forwarded, or Rejected with 401 and
\* one of the two fixed reasons; it never fails with another error.
C6_OnlyTwoTerminalStates ==
    \A r \in Requests :
        (/\ Done(r)
         /\ req[r].outcome # Failure("body read failed")
         /\ interceptors[req[r].mw].cryptoKey.state = "fulfilled")
        => \/ req[r].outcome.kind = "Forwarded"
           \/ req[r].outcome = HttpException(401, "no signature")
           \/ req[r].outcome = HttpException(401, "signature validation failed")

\* C7: for a secret s, a payload b and the Base64 string g of any candidate
\* signature bytes x, validateSignature(b, importKeyFromChannelSecret(s), g)
\* resolves to true exactly when x is the digest of b under the UTF-8 bytes
\* of s: true for g = Sign(s, b), false for every single-bit mutation, for
\* a shorter or longer x, and for the signature of any other payload.
C7_TrueIffDigestMatches ==
    vcall.called
    => /\ \A x \in SignatureBytes :
            vcall.signature = EncodeBase64(x)
            => /\ vcall.result.settled = "resolved"
               /\ vcall.result.value = (x = Hmac(TextEncode(vcall.secret), vcall.body))
       /\ vcall.signature = Sign(vcall.secret, vcall.body) => vcall.result.value
       /\ \A b \in Payloads \ { vcall.body } :
            vcall.signature = Sign(vcall.secret, b) => ~vcall.result.value
       /\ \A i \in 1..DigestLen, k \in 0..7 :
            vcall.signature
                = EncodeBase64(FlipBit(Hmac(TextEncode(vcall.secret), vcall.body), i, k))
            => ~vcall.result.value

\* A direct call with the secret "é" and the signature of the payload has
\* resolved to true.
C7_Witness ==
    /\ vcall.called
    /\ vcall.secret = SecretB
    /\ vcall.signature = Sign(SecretB, vcall.body)
    /\ vcall.result.value

\* C8: every successful call of lineBotMiddleware starts exactly one key
\* derivation, within the call; no step of a request starts one, so the
\* derivations started always number the interceptors constructed; the key
\* promise of an interceptor never changes once settled, and every request
\* is verified with the key derived from the secret of its own interceptor.
C8_OneDerivationPerInterceptor ==
    /\ [](derivations = Len(interceptors))
    /\ [](\A r \in Requests :
            req[r].verifyCalls > 0
            => /\ req[r].key = interceptors[req[r].mw].cryptoKey.key
               /\ req[r].key.bytes = TextEncode(interceptors[req[r].mw].secret))
    /\ [][derivations' # derivations
            => /\ derivations' = derivations + 1
               /\ calls' = calls + 1
               /\ ~lastCall'.threw
               /\ Len(interceptors') = Len(interceptors) + 1
               /\ interceptors'[Len(interceptors')].cryptoKey = Pending
               /\ req' = req]_vars
    /\ [][\A i \in 1..Len(interceptors) :
            /\ interceptors'[i].secret = interceptors[i].secret
            /\ interceptors[i].cryptoKey.state # "pending"
                => interceptors'[i].cryptoKey = interceptors[i].cryptoKey]_vars

\* Two interceptors with different secrets have each verified a request,
\* each with its own key, and two derivations were started.
C8_Witness ==
    /\ derivations = 2
    /\ \E r1, r2 \in Requests :
        /\ req[r1].mw # req[r2].mw
        /\ Verified(r1)
        /\ Verified(r2)
        /\ req[r1].key # req[r2].key

\* The handler of request r has given its verdict: it has called next, or
\* it has ended.
Decided(r) == req[r].nextCalls > 0 \/ Done(r)
Verdict(r) ==
    IF req[r].nextCalls > 0
    THEN [kind |-> "Forwarded", reason |-> ""]
    ELSE [kind |-> req[r].outcome.kind, reason |-> req[r].outcome.reason]

\* The verdict of a request handled alone by an interceptor whose key
\* derivation has settled, from the channel secret, the header and the body.
SequentialVerdict(secretChars, h, b) ==
    IF NoSignature(h) THEN [kind |-> "Rejected", reason |-> "no signature"]
    ELSE LET p == importKeyFromChannelSecret(secretChars) IN
         IF p.state = "rejected" THEN [kind |-> "Error", reason |-> p.reason]
         ELSE LET isValid == validateSignature(b, p.key, h.value) IN
              IF isValid.settled = "rejected" THEN [kind |-> "Error", reason |-> isValid.reason]
              ELSE IF isValid.value THEN [kind |-> "Forwarded", reason |-> ""]
              ELSE [kind |-> "Rejected", reason |-> "signature validation failed"]

BodyReadFailed(r) == req[r].outcome = Failure("body read failed")

\* The program with its constructions drawn from two string secrets, one
\* whose key derivation succeeds and one whose derivation fails, and with
\* the scheduling of the platform: every settled promise's continuation
\* runs, and the body read, the key import and the verification settle.
\* Nothing is assumed of the downstream continuation.
FairSecrets == { JsString(SecretA), JsString(<< >>) }

FairNext ==
    \/ \E v \in FairSecrets : Construct(v)
    \/ \E i \in 1..MaxConstructions : KeySettle(i)
    \/ \E r \in Requests, i \in 1..MaxConstructions, h \in Headers, b \in Bodies :
            Arrive(r, i, h, b)
    \/ \E r \in Requests, ok \in BOOLEAN : BodyRead(r, ok)
    \/ \E r \in Requests : KeyResume(r)
    \/ \E r \in Requests : VerifySettle(r)
    \/ \E r \in Requests, result \in NextResults : NextSettle(r, result)
    \/ \E r \in Requests : Finish(r)

FairSpec ==
    /\ Init
    /\ [][FairNext]_vars
    /\ \A i \in 1..MaxConstructions : WF_vars(KeySettle(i))
    /\ \A r \in Requests :
        /\ WF_vars(\E ok \in BOOLEAN : BodyRead(r, ok))
        /\ WF_vars(KeyResume(r))
        /\ WF_vars(VerifySettle(r))
        /\ WF_vars(Finish(r))

\* C9: while the key derivation of an interceptor is pending, no request of
\* it that carries the header has been verified, forwarded or rejected for
\* its signature; and every request, however many wait for the key and in
\* whatever order they resume, eventually gets the verdict it would get
\* when handled alone after the derivation (unless its body read fails).
C9_WaitersGetSequentialVerdict ==
    /\ [](\A r \in Requests :
            (/\ req[r].pc # "idle"
             /\ req[r].header.present
             /\ interceptors[req[r].mw].cryptoKey.state = "pending")
            => /\ req[r].verifyCalls = 0
               /\ req[r].nextCalls = 0
               /\ req[r].outcome.kind # "Forwarded"
               /\ req[r].outcome.reason # "signature validation failed")
    /\ \A r \in Requests :
        (req[r].pc = "AwaitingKey")
        ~> (/\ Decided(r)
            /\ Verdict(r) = SequentialVerdict(interceptors[req[r].mw].secret,
                                              req[r].header, req[r].body))

\* Both requests wait for the key of the same interceptor, still pending.
C9_Witness ==
    /\ \A r \in Requests : req[r].pc = "AwaitingKey" /\ req[r].mw = 1
    /\ interceptors[1].cryptoKey.state = "pending"

\* C10: the verdict of a request is the function SequentialVerdict of the
\* channel secret, the header and the body (a failed body read apart): two
\* requests of one interceptor with the same header and body get the same
\* verdict, whatever else was handled or is in flight; a request reads its
\* body, awaits the key, verifies and calls next at most once each; and a
\* step of one request changes nothing but that request.
C10_VerdictIsAFunctionOfInputs ==
    /\ [](\A r \in Requests :
            /\ req[r].bodyReads <= 1
            /\ req[r].keyAwaits <= 1
            /\ req[r].verifyCalls <= 1
            /\ req[r].nextCalls <= 1
            /\ (Decided(r) /\ ~BodyReadFailed(r))
                => Verdict(r) = SequentialVerdict(interceptors[req[r].mw].secret,
                                                  req[r].header, req[r].body))
    /\ [](\A r1, r2 \in Requests :
            (/\ Decided(r1) /\ ~BodyReadFailed(r1)
             /\ Decided(r2) /\ ~BodyReadFailed(r2)
             /\ req[r1].mw = req[r2].mw
             /\ req[r1].header = req[r2].header
             /\ req[r1].body = req[r2].body)
            => Verdict(r1) = Verdict(r2))
    /\ [][\A r \in Requests :
            req'[r] # req[r]
            => /\ interceptors' = interceptors
               /\ derivations' = derivations
               /\ \A q \in Requests \ { r } : req'[q] = req[q]]_vars

\* The same invalid request was handled twice by one interceptor and was
\* rejected twice, each time after a verification of its own.
C10_Witness ==
    \E r1, r2 \in Requests :
        /\ r1 # r2
        /\ req[r1].mw = req[r2].mw
        /\ req[r1].header = req[r2].header
        /\ req[r1].body = req[r2].body
        /\ req[r1].outcome.reason = "signature validation failed"
        /\ req[r2].outcome.reason = "signature validation failed"
        /\ req[r1].verifyCalls = 1
        /\ req[r2].verifyCalls = 1

\* The key derivation of the interceptor of request r has failed.
KeyRejected(r) ==
    /\ req[r].pc # "idle"
    /\ interceptors[req[r].mw].cryptoKey.state = "rejected"

=============================================================================
